---------------------------- MODULE Spec2Model ----------------------------
(***************************************************************************)
(* A model of the n-queens solvers of src/src/main.rs (and of the older    *)
(* backtracker of src/queens.rs).                                          *)
(*                                                                         *)
(* A board is a sequence of row indices, one per column.  Rust indexes     *)
(* columns from 0 and TLA+ sequences from 1: column x of the code is       *)
(* element x + 1 of the sequence, and every operator below that takes a    *)
(* column takes the code's 0-based column.                                 *)
(***************************************************************************)
EXTENDS Integers, Sequences, FiniteSets, TLC

VARIABLES
    alg,            \* which NQueensStrategy this run is
    size,           \* the board dimension n
    pc,             \* where solve_with_callback is
    queen_rows,     \* base.queen_rows (backtracking, hill climbing, annealing)
    start_search_at,                    \* backtracking's cursor
    current_score,                      \* hill climbing / annealing: tracked score
    iterations_without_improvement,     \* hill climbing / annealing
    temperature,    \* annealing
    cooling_factor, \* annealing, an f32
    state_count,    \* beam search: config.state_count
    states,         \* beam search: the beam
    config,         \* genetic: GeneticAlgorithmConfig
    current_generation,                 \* genetic
    next_generation,                    \* genetic
    non_elite_generation_start,         \* genetic
    pending_generations,                \* genetic
    cb,             \* the arguments of the latest callback invocation
    cb_fired,       \* how many times the latest step invoked the callback
    lowest_seen,    \* hill climbing: the lowest score() value computed so far
    solution,       \* the returned Solution
    probe           \* the arguments and results of direct can_position calls

vars == <<alg, size, pc, queen_rows, start_search_at, current_score,
          iterations_without_improvement, temperature, cooling_factor,
          state_count, states, config, current_generation, next_generation,
          non_elite_generation_start, pending_generations, cb, cb_fired,
          lowest_seen, solution, probe>>

btVars == <<start_search_at>>
hcVars == <<current_score, iterations_without_improvement>>
saVars == <<temperature, cooling_factor>>
beamVars == <<state_count, states>>
gaVars == <<config, current_generation, next_generation,
            non_elite_generation_start, pending_generations>>

---------------------------------------------------------------------------
(* Bounds of the model. *)

\* Largest board of a backtracking run.
MaxSizeBT == 6
\* Largest board of a hill climbing or annealing run.
MaxSize == 3

\* Largest board of a beam search run, and largest state_count.
MaxSizeBeam == 4
MaxStateCount == 1
\* Starting temperatures are 0..MaxTemp.
MaxTemp == 2
\* The cooling factors are c / CoolScale, with c in 0..CoolScale - 1, and
\* the f32 2^-27.
CoolScale == 2

\* Largest board, generation_size and generation_count of a genetic run.
MaxSizeGA == 3
MaxGenerationSize == 2
MaxGenerationCount == 2
\* A probability p stands for p / ProbScale, with p in 0..ProbScale.
ProbScale == 2
\* Largest board, generation_size and generation_count of the genetic runs
\* of few individuals.
MaxSizeFew == 2
MaxGenerationSizeFew == 1
MaxGenerationCountFew == 1
\* Runs with elitism 1.0: the largest board, and a generation_size beyond
\* MaxGenerationSize.
MaxSizeElite == 2
LargeGenerationSize == 12
\* The elite loop taken alone runs on populations of 1..MaxEliteLen.
MaxEliteLen == 24
\* The selection of one slot taken alone runs on boards of 2..MaxSizeSelect
\* columns and populations of 1..MaxSelectLen.
MaxSizeSelect == 3
MaxSelectLen == 12
\* The mix taken alone runs on boards of 2..MaxSizeCross columns and
\* generations of 1..MaxCrossLen individuals.
MaxSizeCross == 2
MaxCrossLen == 3

\* Largest board of a direct score() / can_position call.
MaxSizeScore == 3

\* MAX_ITERATIONS_WITHOUT_IMPROVEMENT of hill climbing and annealing.
MAX_ITERATIONS_WITHOUT_IMPROVEMENT == 1000

\* Where the model stops annealing's counter, which the code leaves unbounded.
CounterCap == MAX_ITERATIONS_WITHOUT_IMPROVEMENT + 2

NoCallback == [fired |-> FALSE]
NoSolution == [returned |-> FALSE]
NoProbe == [called |-> FALSE]
NoConfig == [generation_size |-> 0, elitism |-> 0, crossover_probability |-> 0,
             mutation_probability |-> 0, generation_count |-> 0]

---------------------------------------------------------------------------
(* GenericChallengeState *)

Abs(x) == IF x < 0 THEN -x ELSE x

\* can_position without its diagonal test.
CanPositionNoDiagonal(p1, p2) ==
    IF p1[1] = p2[1] /\ p1[2] = p2[2] THEN "Match"
    ELSE IF p1[1] = p2[1] THEN "Column"
    ELSE IF p1[2] = p2[2] THEN "Row"
    ELSE "Ok"

\* can_position comparing the differences without abs().
CanPositionOneDiagonal(p1, p2) ==
    IF p1[1] = p2[1] /\ p1[2] = p2[2] THEN "Match"
    ELSE IF p1[1] = p2[1] THEN "Column"
    ELSE IF p1[2] = p2[2] THEN "Row"
    ELSE IF p1[1] - p2[1] = p1[2] - p2[2] THEN "Diagonal"
    ELSE "Ok"

\* can_position: "Ok" for Ok(()), else the PositionError.
CanPosition(p1, p2) ==
    LET x1 == p1[1]
        y1 == p1[2]
        x2 == p2[1]
        y2 == p2[2]
    IN  IF x1 = x2 /\ y1 = y2 THEN "Match"
        ELSE IF x1 = x2 THEN "Column"
        ELSE IF y1 = y2 THEN "Row"
        ELSE IF Abs(x1 - x2) = Abs(y1 - y2) THEN "Diagonal"
        ELSE "Ok"

CanHit(p1, p2) == CanPosition(p1, p2) # "Ok"

\* The loops of score(): for i in 0..len, for j in i+1..len.
RECURSIVE ScoreLoop(_, _, _, _)
ScoreLoop(rows, i, j, score) ==
    IF i >= Len(rows) THEN score
    ELSE IF j >= Len(rows) THEN ScoreLoop(rows, i + 1, i + 2, score)
    ELSE ScoreLoop(rows, i, j + 1,
                   IF CanHit(<<i, rows[i + 1]>>, <<j, rows[j + 1]>>)
                   THEN score + 1 ELSE score)

Score(rows) == ScoreLoop(rows, 0, 1, 0)

\* A test against the queen of the latest column only.
QueenCanBePositionedAtLast(rows, pos) ==
    rows = <<>> \/ CanPosition(pos, <<Len(rows) - 1, rows[Len(rows)]>>) = "Ok"

QueenCanBePositionedAt(rows, pos) ==
    \A x \in 0..(Len(rows) - 1) : CanPosition(pos, <<x, rows[x + 1]>>) = "Ok"

\* A swap that writes one of the two elements only.
SwapOverwrite(rows, a, b) == [rows EXCEPT ![a + 1] = rows[b + 1]]

\* Vec::swap on 0-based indices.
Swap(rows, a, b) ==
    [rows EXCEPT ![a + 1] = rows[b + 1], ![b + 1] = rows[a + 1]]

\* Vec::remove on a 0-based index.
Remove(v, k) == SubSeq(v, 1, k) \o SubSeq(v, k + 2, Len(v))

\* The loop of GenericChallengeState::new; rnd[k] is the k-th next_u32().
RECURSIVE NewLoop(_, _, _, _)
NewLoop(positions_pending, rows, rnd, k) ==
    IF positions_pending = <<>> THEN rows
    ELSE LET chosen == rnd[k] % Len(positions_pending)
             position == positions_pending[chosen + 1]
             rest == Remove(positions_pending, chosen)
         IN  NewLoop(rest, [rows EXCEPT ![Len(rest) + 1] = position], rnd, k + 1)

New(n, rnd) == NewLoop([i \in 1..n |-> i - 1], [i \in 1..n |-> 0], rnd, 1)

\* The values next_u32() is drawn from: every residue modulo a length <= n.
RandomDraws(n) == [1..n -> 0..(n - 1)]

NewStates(n) == {New(n, rnd) : rnd \in RandomDraws(n)}

\* get_two_random_queens: the pairs it can return (it resamples queen_2
\* until it differs from queen_1).
GetTwoRandomQueens(rows) ==
    {q \in (0..(Len(rows) - 1)) \X (0..(Len(rows) - 1)) : q[1] # q[2]}

Min(a, b) == IF a < b THEN a ELSE b
Max(a, b) == IF a > b THEN a ELSE b

(* f32 arithmetic.  An f32 value is kept as a whole number of units of      *)
(* 2^-27, which holds exactly every f32 in [2^-4, 2): an f32 has 24         *)
(* significant bits, so its last bit is worth 1 unit in [2^-4, 2^-3),       *)
(* 2 units in [2^-3, 2^-2), ... and 16 units in [1, 2).  Every operation    *)
(* rounds its exact result to the nearest f32, ties to even.                *)

\* 1.0
F32One == 2^27
\* 2^24: a value below it, in units of its last bit, is a whole f32 mantissa.
F32Precision == 2^24

\* The quotient a / b rounded to the nearest whole number, ties to even.
RoundHalfEven(a, b) ==
    LET q == a \div b
        r == a % b
    IN  IF 2 * r > b \/ (2 * r = b /\ q % 2 = 1) THEN q + 1 ELSE q

\* The worth of the last bit of an f32 of (truncated) value v.
RECURSIVE F32Step(_)
F32Step(v) == IF v < F32Precision THEN 1 ELSE 2 * F32Step(v \div 2)

\* The f32 nearest to a / b.
F32Round(a, b) ==
    LET step == F32Step(a \div b)
    IN  step * RoundHalfEven(a, b * step)

\* x + y and x - y on f32
F32Add(x, y) == F32Round(x + y, 1)
F32Sub(x, y) == F32Round(x - y, 1)

\* The power of two that brings a nonzero h < 2^24 into [2^23, 2^24).
RECURSIVE F32Normalise(_)
F32Normalise(h) ==
    IF h = 0 THEN F32Precision
    ELSE IF 2 * h >= F32Precision THEN 1 ELSE 2 * F32Normalise(2 * h)

RECURSIVE Log2(_)
Log2(p) == IF p <= 1 THEN 0 ELSE 1 + Log2(p \div 2)

\* x * y.  The 48-bit product of the two 24-bit significands is formed in
\* halves, hi * 2^24 + lo, and rounded to 24 bits, ties to even.  A product
\* below 2^-3 is cut to a whole unit.
F32Mul(x, y) ==
    LET sx == F32Step(x)
        sy == F32Step(y)
        mx == x \div sx
        my == y \div sy
        a == mx \div 4096
        b == mx % 4096
        c == my \div 4096
        d == my % 4096
        mid == a * d + b * c
        rest == (mid % 4096) * 4096 + b * d
        hi == a * c + mid \div 4096 + rest \div F32Precision
        lo == rest % F32Precision
        t == F32Normalise(hi)
        kept == F32Precision \div t
        m0 == hi * t + lo \div kept
        r == lo % kept
        m == IF 2 * r > kept \/ (2 * r = kept /\ m0 % 2 = 1) THEN m0 + 1 ELSE m0
        e == Log2(kept) + Log2(sx) + Log2(sy) - 27
    IN  IF e >= 0 THEN m * 2^e ELSE m \div 2^(0 - e)

\* A callback invocation: its arguments, and the call site ("start": before a
\* loop, "move": on a kept move, "push", "pop", "round": in a round's scan).
Callback(rows, score, site) ==
    [fired |-> TRUE, queen_rows |-> rows, score |-> score, site |-> site]

Returned(rows, score) == [returned |-> TRUE, queen_rows |-> rows, score |-> score]

---------------------------------------------------------------------------
(* ConstraintPropagation, and the backtracker of queens.rs ("old") *)

\* position_next_queen_from_row: the row found, or -1 for Err(()).
RECURSIVE PositionNextQueenFromRow(_, _, _)
PositionNextQueenFromRow(rows, n, row) ==
    IF row < n
    THEN IF QueenCanBePositionedAt(rows, <<Len(rows), row>>)
         THEN row
         ELSE PositionNextQueenFromRow(rows, n, row + 1)
    ELSE -1

IsBT == alg \in {"bt", "old"}

\* Ok(pos): push, callback, restart the next column at row 0.
BTPush ==
    /\ IsBT /\ pc = "loop"
    /\ Len(queen_rows) # size
    /\ LET pos == PositionNextQueenFromRow(queen_rows, size, start_search_at)
       IN  /\ pos # -1
           /\ queen_rows' = Append(queen_rows, pos)
           /\ cb' = Callback(queen_rows', 0, "push")
    /\ cb_fired' = 1
    /\ start_search_at' = 0
    /\ UNCHANGED <<probe, alg, size, pc, hcVars, saVars, beamVars, gaVars,
                   lowest_seen, solution>>

\* A pop that resumes the popped column at the popped row.
BTPopSameRow ==
    /\ IsBT /\ pc = "loop"
    /\ Len(queen_rows) # size
    /\ PositionNextQueenFromRow(queen_rows, size, start_search_at) = -1
    /\ queen_rows # <<>>
    /\ queen_rows' = SubSeq(queen_rows, 1, Len(queen_rows) - 1)
    /\ cb' = Callback(queen_rows', 0, "pop")
    /\ cb_fired' = 1
    /\ start_search_at' = queen_rows[Len(queen_rows)]
    /\ UNCHANGED <<probe, alg, size, pc, hcVars, saVars, beamVars, gaVars,
                   lowest_seen, solution>>

\* Err(()), Some(row): pop, callback, resume the popped column at row + 1.
BTPop ==
    /\ IsBT /\ pc = "loop"
    /\ Len(queen_rows) # size
    /\ PositionNextQueenFromRow(queen_rows, size, start_search_at) = -1
    /\ queen_rows # <<>>
    /\ queen_rows' = SubSeq(queen_rows, 1, Len(queen_rows) - 1)
    /\ cb' = Callback(queen_rows', 0, "pop")
    /\ cb_fired' = 1
    /\ start_search_at' = queen_rows[Len(queen_rows)] + 1
    /\ UNCHANGED <<probe, alg, size, pc, hcVars, saVars, beamVars, gaVars,
                   lowest_seen, solution>>

\* What main.rs returns after its loop (by break or by the loop condition).
BTSolution(rows) == Returned(rows, Score(rows))

\* The loop is over: Err(()) with nothing to pop (break in main.rs, return
\* None in queens.rs), or the board is full.
BTReturn ==
    /\ IsBT /\ pc = "loop"
    /\ \/ Len(queen_rows) = size
       \/ /\ PositionNextQueenFromRow(queen_rows, size, start_search_at) = -1
          /\ queen_rows = <<>>
    /\ solution' = IF alg = "bt" THEN BTSolution(queen_rows)
                   ELSE IF Len(queen_rows) = size
                        THEN [returned |-> TRUE, some |-> TRUE,
                              queen_rows |-> queen_rows]
                        ELSE [returned |-> TRUE, some |-> FALSE]
    /\ pc' = "done"
    /\ cb_fired' = 0
    /\ UNCHANGED <<probe, alg, size, queen_rows, btVars, hcVars, saVars, beamVars,
                   gaVars, cb, lowest_seen>>

---------------------------------------------------------------------------
(* HillClimbing *)

\* let mut current_score = score(); counter = 0; callback(...)
HCStart ==
    /\ alg = "hc" /\ pc = "start"
    /\ current_score' = Score(queen_rows)
    /\ iterations_without_improvement' = 0
    /\ cb' = Callback(queen_rows, current_score', "start")
    /\ cb_fired' = 1
    /\ lowest_seen' = current_score'
    /\ pc' = "loop"
    /\ UNCHANGED <<probe, alg, size, queen_rows, btVars, saVars, beamVars, gaVars,
                   solution>>

\* The loop condition with the counter compared by <.
HCContinueBelow ==
    /\ current_score # 0
    /\ iterations_without_improvement < MAX_ITERATIONS_WITHOUT_IMPROVEMENT

\* while current_score != 0 && counter <= MAX_ITERATIONS_WITHOUT_IMPROVEMENT
HCContinue ==
    /\ current_score # 0
    /\ iterations_without_improvement <= MAX_ITERATIONS_WITHOUT_IMPROVEMENT

\* A move is kept when it does not worsen the score.
HCImprovesOrEqual(score, current) == score <= current

\* The comparison reversed.
HCWorsens(score, current) == score > current

\* if score < current_score
HCImproves(score, current) == score < current

\* An iteration that leaves a rejected swap in place.
HCStepNoUndo(rows, current, counter, q) ==
    LET swapped == Swap(rows, q[1], q[2])
        score == Score(swapped)
    IN  IF HCImproves(score, current)
        THEN [queen_rows |-> swapped, score |-> score, counter |-> 0,
              callback |-> TRUE, computed |-> score]
        ELSE [queen_rows |-> swapped, score |-> current,
              counter |-> counter + 1, callback |-> FALSE, computed |-> score]

\* What one iteration of the loop leaves when get_two_random_queens
\* returns q: the board, the tracked score, the counter, whether the
\* callback ran, and the score() the iteration computed.
HCStep(rows, current, counter, q) ==
    LET swapped == Swap(rows, q[1], q[2])
        score == Score(swapped)
    IN  IF HCImproves(score, current)
        THEN [queen_rows |-> swapped, score |-> score, counter |-> 0,
              callback |-> TRUE, computed |-> score]
        ELSE [queen_rows |-> Swap(swapped, q[1], q[2]), score |-> current,
              counter |-> counter + 1, callback |-> FALSE, computed |-> score]

\* One iteration of the loop.
HCIterate ==
    /\ alg = "hc" /\ pc = "loop"
    /\ HCContinue
    /\ \E q \in GetTwoRandomQueens(queen_rows) :
         \E step \in {HCStep(queen_rows, current_score,
                              iterations_without_improvement, q)} :
             /\ lowest_seen' = Min(lowest_seen, step.computed)
             /\ queen_rows' = step.queen_rows
             /\ current_score' = step.score
             /\ iterations_without_improvement' = step.counter
             /\ cb' = IF step.callback
                      THEN Callback(step.queen_rows, step.score, "move")
                      ELSE cb
             /\ cb_fired' = IF step.callback THEN 1 ELSE 0
    /\ UNCHANGED <<probe, alg, size, pc, btVars, saVars, beamVars, gaVars, solution>>

HCReturn ==
    /\ alg = "hc" /\ pc = "loop"
    /\ ~HCContinue
    /\ solution' = Returned(queen_rows, current_score)
    /\ pc' = "done"
    /\ cb_fired' = 0
    /\ UNCHANGED <<probe, alg, size, queen_rows, btVars, hcVars, saVars, beamVars,
                   gaVars, cb, lowest_seen>>

---------------------------------------------------------------------------
(* SimulatedAnnealing *)

(* temperature and cooling_factor are f32 in the code and f32 in the       *)
(* model, in units of 2^-27: 1. - cooling_factor is the f32 subtraction    *)
(* and temperature *= ... the f32 product.  The code reads a temperature   *)
(* in "<= 1.0" and ">= 1." only and never raises it, so every temperature  *)
(* below 1.0 is the model's 0.                                             *)

\* should_accept refusing below temperature 1.0 only.
ShouldAcceptBelowOne(temp, old_score, new_score) ==
    IF temp < F32One THEN {FALSE}
    ELSE IF new_score - old_score >= 0 THEN {TRUE}
    ELSE {TRUE, FALSE}

\* The outcomes of should_accept.  Above temperature 1.0 the code compares
\* exp((new_score - old_score) / temperature) with next_f32(), which lies in
\* [0, 1): an exponent >= 0 gives exp >= 1, which is above every draw.
ShouldAccept(temp, old_score, new_score) ==
    IF temp <= F32One THEN {FALSE}
    ELSE IF new_score - old_score >= 0 THEN {TRUE}
    ELSE {TRUE, FALSE}

\* self.temperature *= 1. - self.cooling_factor
Cool(temp, factor) ==
    LET cooled == F32Mul(temp, F32Sub(F32One, factor))
    IN  IF cooled < F32One THEN 0 ELSE cooled

\* The starting temperatures of the runs: 0.0, 1.0, ..., MaxTemp.
StartTemperatures == {t * F32One : t \in 0..MaxTemp}

\* The cooling factors of the runs: 0, the f32 nearest to c / CoolScale, and
\* 2^-27 (1 unit), a positive f32 below half the last bit of 1.0.
CoolingFactors == {F32Round(c * F32One, CoolScale) : c \in 0..(CoolScale - 1)} \cup {1}

\* let mut score = score(); callback(...); counter = 0
SAStart ==
    /\ alg = "sa" /\ pc = "start"
    /\ current_score' = Score(queen_rows)
    /\ iterations_without_improvement' = 0
    /\ cb' = Callback(queen_rows, current_score', "start")
    /\ cb_fired' = 1
    /\ pc' = "loop"
    /\ UNCHANGED <<probe, alg, size, queen_rows, btVars, saVars, beamVars, gaVars,
                   lowest_seen, solution>>

\* The loop condition with the temperature compared with 0.
SAContinueAboveZero ==
    /\ current_score # 0
    /\ \/ temperature >= 0
       \/ iterations_without_improvement <= MAX_ITERATIONS_WITHOUT_IMPROVEMENT

\* while score != 0 && (temperature >= 1. || counter <= MAX_ITERATIONS_WITHOUT_IMPROVEMENT)
SAContinue ==
    /\ current_score # 0
    /\ \/ temperature >= F32One
       \/ iterations_without_improvement <= MAX_ITERATIONS_WITHOUT_IMPROVEMENT

\* What one iteration of the loop can leave when get_two_random_queens
\* returns q: one outcome for every outcome of
\* new_score < score || should_accept(score, new_score).
\* An annealing step that keeps a move without taking its score.
SAStepKeepsScore(rows, current, counter, temp, q) ==
    LET swapped == Swap(rows, q[1], q[2])
        new_score == Score(swapped)
    IN  {IF accept
         THEN [queen_rows |-> swapped, score |-> current, counter |-> 0,
               callback |-> TRUE, computed |-> new_score]
         ELSE [queen_rows |-> Swap(swapped, q[1], q[2]), score |-> current,
               counter |-> counter + 1, callback |-> FALSE,
               computed |-> new_score] :
         accept \in (IF new_score < current THEN {TRUE}
                     ELSE ShouldAccept(temp, current, new_score))}

SAStep(rows, current, counter, temp, q) ==
    LET swapped == Swap(rows, q[1], q[2])
        new_score == Score(swapped)
    IN  {IF accept
         THEN [queen_rows |-> swapped, score |-> new_score, counter |-> 0,
               callback |-> TRUE, computed |-> new_score]
         ELSE [queen_rows |-> Swap(swapped, q[1], q[2]), score |-> current,
               counter |-> counter + 1, callback |-> FALSE,
               computed |-> new_score] :
         accept \in (IF new_score < current THEN {TRUE}
                     ELSE ShouldAccept(temp, current, new_score))}

\* One iteration of the loop.  The counter is unbounded in the code while
\* temperature >= 1.0; the model stops a run at CounterCap.
SAIterate ==
    /\ alg = "sa" /\ pc = "loop"
    /\ SAContinue
    /\ iterations_without_improvement < CounterCap
    /\ \E q \in GetTwoRandomQueens(queen_rows) :
         \E step \in SAStep(queen_rows, current_score,
                            iterations_without_improvement, temperature, q) :
             /\ queen_rows' = step.queen_rows
             /\ current_score' = step.score
             /\ iterations_without_improvement' = step.counter
             /\ cb' = IF step.callback
                      THEN Callback(step.queen_rows, step.score, "move")
                      ELSE cb
             /\ cb_fired' = IF step.callback THEN 1 ELSE 0
    /\ temperature' = Cool(temperature, cooling_factor)
    /\ UNCHANGED <<probe, alg, size, pc, btVars, cooling_factor, beamVars, gaVars,
                   lowest_seen, solution>>

SAReturn ==
    /\ alg = "sa" /\ pc = "loop"
    /\ ~SAContinue
    /\ solution' = Returned(queen_rows, current_score)
    /\ pc' = "done"
    /\ cb_fired' = 0
    /\ UNCHANGED <<probe, alg, size, queen_rows, btVars, hcVars, saVars, beamVars,
                   gaVars, cb, lowest_seen>>

---------------------------------------------------------------------------
(* LocalBeamSearch *)

\* The (i, j) of "for i in 0..size, for j in i + 1..size", in order.
RECURSIVE SwapPairsLoop(_, _, _, _)
SwapPairsLoop(n, i, j, acc) ==
    IF i >= n THEN acc
    ELSE IF j >= n THEN SwapPairsLoop(n, i + 1, i + 2, acc)
    ELSE SwapPairsLoop(n, i, j + 1, Append(acc, <<i, j>>))

SwapPairs(n) == SwapPairsLoop(n, 0, 1, <<>>)

\* The successors of one state, in generation order.
SuccessorsOf(state, n) ==
    LET pairs == SwapPairs(n)
    IN  [k \in 1..Len(pairs) |-> Swap(state, pairs[k][1], pairs[k][2])]

\* The first state kept next to its own successors.
SuccessorsWithParents(sts, n) ==
    IF sts = <<>> THEN <<>> ELSE <<Head(sts)>> \o SuccessorsOf(Head(sts), n)

\* for state in &states { for i .. { for j .. { successors.push(..) } } }
RECURSIVE Successors(_, _)
Successors(sts, n) ==
    IF sts = <<>> THEN <<>>
    ELSE SuccessorsOf(Head(sts), n) \o Successors(Tail(sts), n)

\* The states paired with their sort key, s.score().
RECURSIVE WithScore(_)
WithScore(sts) ==
    IF sts = <<>> THEN <<>>
    ELSE <<(<<Score(Head(sts)), Head(sts)>>)>> \o WithScore(Tail(sts))

\* The largest key of the first k elements.
RECURSIVE MaxKey(_, _)
MaxKey(keyed, k) ==
    IF k = 0 THEN 0 ELSE Max(MaxKey(keyed, k - 1), keyed[k][1])

\* The states of key sc, from the k-th on, in their order.
RECURSIVE KeyedWith(_, _, _)
KeyedWith(keyed, sc, k) ==
    IF k > Len(keyed) THEN <<>>
    ELSE (IF keyed[k][1] = sc THEN <<keyed[k][2]>> ELSE <<>>)
             \o KeyedWith(keyed, sc, k + 1)

\* The states by ascending key, equal keys in their order: a stable sort.
RECURSIVE SortFrom(_, _, _)
SortFrom(keyed, sc, max_key) ==
    IF sc > max_key THEN <<>>
    ELSE KeyedWith(keyed, sc, 1) \o SortFrom(keyed, sc + 1, max_key)

\* sort_by_key(|s| s.score()), which is stable.
SortByScore(sts) ==
    LET keyed == WithScore(sts)
    IN  SortFrom(keyed, 0, MaxKey(keyed, Len(keyed)))

\* Vec::truncate
Truncate(v, n) == SubSeq(v, 1, Min(n, Len(v)))

\* The index of the first state, whatever its score.
FirstOfAny(sts, k) == IF k > Len(sts) THEN 0 ELSE k

\* A scan that never finds a state of score 0.
FirstZeroMissed(sts, k) == 0

\* The index of the first state of score 0, or 0 when there is none.
RECURSIVE FirstZero(_, _)
FirstZero(sts, k) ==
    IF k > Len(sts) THEN 0
    ELSE IF Score(sts[k]) = 0 THEN k
    ELSE FirstZero(sts, k + 1)

\* for _ in 0..state_count { states.push(GenericChallengeState::new(..)) }
BeamStart ==
    /\ alg = "beam" /\ pc = "start"
    /\ states' \in [1..state_count -> NewStates(size)]
    /\ pc' = "loop"
    /\ cb_fired' = 0
    /\ UNCHANGED <<probe, alg, size, queen_rows, btVars, hcVars, saVars, state_count,
                   gaVars, cb, lowest_seen, solution>>

\* The first for loop of a round finds a state of score 0 and returns it.
BeamReturn ==
    /\ alg = "beam" /\ pc = "loop"
    /\ LET z == FirstZero(states, 1)
       IN  /\ z # 0
           /\ cb' = Callback(states[z], 0, "round")
           /\ cb_fired' = IF z = 1 THEN 1 ELSE 2
           /\ solution' = Returned(states[z], 0)
    /\ pc' = "done"
    /\ UNCHANGED <<probe, alg, size, queen_rows, btVars, hcVars, saVars, beamVars,
                   gaVars, lowest_seen>>

\* The next beam without the sort.
NextBeamUnsorted(sts, n, count) == Truncate(Successors(sts, n), count)

\* The next beam: all successors, sorted by score, cut to state_count.
NextBeam(sts, n, count) == Truncate(SortByScore(Successors(sts, n)), count)

\* The first for loop of a round finds no state of score 0: only the first
\* state is shown to the callback.
BeamScan ==
    /\ alg = "beam" /\ pc = "loop"
    /\ FirstZero(states, 1) = 0
    /\ IF states = <<>>
       THEN /\ cb_fired' = 0
            /\ UNCHANGED cb
       ELSE /\ cb' = Callback(states[1], Score(states[1]), "round")
            /\ cb_fired' = 1
    /\ pc' = "successors"
    /\ UNCHANGED <<probe, alg, size, queen_rows, btVars, hcVars, saVars, beamVars,
                   gaVars, lowest_seen, solution>>

\* The rest of the round: the successors replace the states, and the loop
\* starts over.
BeamSuccessors ==
    /\ alg = "beam" /\ pc = "successors"
    /\ states' = NextBeam(states, size, state_count)
    /\ cb_fired' = 0
    /\ pc' = "loop"
    /\ UNCHANGED <<probe, alg, size, queen_rows, btVars, hcVars, saVars,
                   state_count, gaVars, cb, lowest_seen, solution>>

---------------------------------------------------------------------------
(* GeneticAlgorithm *)

(* elitism, crossover_probability and mutation_probability are f32 in the  *)
(* code.  The model keeps them on a grid: a value v stands for             *)
(* v / ProbScale, and a draw of next_f32() compared with one of them is    *)
(* r / ProbScale with r in 0..ProbScale - 1.  The elite loop and the       *)
(* selection add and compare f32 values, and are f32 in the model.         *)

\* scores: the score of every individual, in order.
RECURSIVE ScoresFrom(_, _)
ScoresFrom(generation, k) ==
    IF k > Len(generation) THEN <<>>
    ELSE <<Score(generation[k])>> \o ScoresFrom(generation, k + 1)

Scores(generation) == ScoresFrom(generation, 1)

RECURSIVE MaxScore(_, _)
MaxScore(scores, k) ==
    IF k = 0 THEN 0 ELSE Max(MaxScore(scores, k - 1), scores[k])

RECURSIVE TotalInverseScore(_, _, _)
TotalInverseScore(scores, max_score, k) ==
    IF k = 0 THEN 0
    ELSE TotalInverseScore(scores, max_score, k - 1) + (max_score - scores[k])

\* The elite loop's f32 values are kept in units of 2^-29 (exact down to
\* 2^-6, the share of one individual among 64).
EliteOne == 4 * F32One

\* A probability of the grid as the f32 the configuration holds.
F32Probability(v) == F32Round(v * EliteOne, ProbScale)

\* while percent_so_far < elitism: the number of elites pushed after k
\* pushes, percent_so_far growing by percent_per_individual = 1.0 / len in
\* f32.  The push indexes current_generation[k], which panics once k
\* reaches len; -1 stands for it.
RECURSIVE EliteLoop(_, _, _, _)
EliteLoop(k, len, percent_so_far, elitism) ==
    IF percent_so_far < elitism
    THEN IF k >= len THEN -1
         ELSE EliteLoop(k + 1, len,
                        F32Add(percent_so_far, F32Round(EliteOne, len)), elitism)
    ELSE k

\* (a as f32) / (b as f32) for whole numbers 0 <= a <= b below 2048, b > 0,
\* in units of 2^-29: the quotient to 29 binary places and what is left of
\* it, rounded to 24 bits, ties to even.
F32Ratio(a, b) ==
    LET top == a * 2^20
        rem == top % b
        full == (top \div b) * 512 + (rem * 512) \div b
        rest == (rem * 512) % b
        step == F32Step(full)
        m == full \div step
        num == (full % step) * b + rest
        den == step * b
    IN  step * (IF 2 * num > den \/ (2 * num = den /\ m % 2 = 1) THEN m + 1 ELSE m)

\* What the selection adds to `previous` for the individual of score
\* `score`: percent_per_individual when total_inverse_score is 0, else
\* (max_score - score) as f32 / total_inverse_score as f32.
SelectionShare(score, max_score, total, len) ==
    IF total = 0 THEN F32Round(EliteOne, len)
    ELSE F32Ratio(max_score - score, total)

\* The shares of the individuals from the k-th on, in their order.
RECURSIVE SharesFrom(_, _, _, _)
SharesFrom(scores, max_score, total, k) ==
    IF k > Len(scores) THEN <<>>
    ELSE <<SelectionShare(scores[k], max_score, total, Len(scores))>>
            \o SharesFrom(scores, max_score, total, k + 1)

SelectionShares(scores) ==
    LET max_score == MaxScore(scores, Len(scores))
    IN  SharesFrom(scores, max_score,
                   TotalInverseScore(scores, max_score, Len(scores)), 1)

\* for (i, score) in scores.iter().enumerate().rev(): the individual chosen
\* by the draw p, or -1 when none is (assert!(chosen_one)).
RECURSIVE SelectLoop(_, _, _, _)
SelectLoop(shares, p, i, previous) ==
    IF i < 0 THEN -1
    ELSE LET probability == F32Add(previous, shares[i + 1])
         IN  IF p < probability THEN i
             ELSE SelectLoop(shares, p, i - 1, probability)

Select(scores, p) == SelectLoop(SelectionShares(scores), p, Len(scores) - 1, 0)

\* `previous` when the loop reaches individual i.
RECURSIVE SelectionPrevious(_, _)
SelectionPrevious(shares, i) ==
    IF i >= Len(shares) - 1 THEN 0
    ELSE F32Add(SelectionPrevious(shares, i + 1), shares[i + 2])

\* next_f32() returns a multiple of 2^-23 below 1.0 (generators of 24 bits
\* return these among others).  The draws of the model: for every
\* individual the first such value at or above its `previous`, and the
\* largest, 1 - 2^-23.
DrawStep == EliteOne \div 2^23
SelectionDraws(scores) ==
    LET shares == SelectionShares(scores)
    IN  {d \in {((SelectionPrevious(shares, i) + DrawStep - 1) \div DrawStep) * DrawStep :
                    i \in 0..(Len(scores) - 1)} : d < EliteOne}
            \cup {EliteOne - DrawStep}

\* A mix that also exchanges the column of the split.
CrossInclusive(generation, a, b, split) ==
    [generation EXCEPT
        ![a] = [j \in 1..Len(generation[a]) |->
                    IF j <= split + 1 THEN generation[b][j] ELSE generation[a][j]],
        ![b] = [j \in 1..Len(generation[b]) |->
                    IF j <= split + 1 THEN generation[a][j] ELSE generation[b][j]]]

\* mem::swap of the rows of columns 0..split - 1 of individuals a and b
\* (1-based positions in the generation).
Cross(generation, a, b, split) ==
    [generation EXCEPT
        ![a] = [j \in 1..Len(generation[a]) |->
                    IF j <= split THEN generation[b][j] ELSE generation[a][j]],
        ![b] = [j \in 1..Len(generation[b]) |->
                    IF j <= split THEN generation[a][j] ELSE generation[b][j]]]

\* The pairs the mix crosses, in order (1-based positions): i, i + 1 for i in
\* start..len - 2, then first and last of the non-elite slice when it holds
\* at least two.
CrossoverPairs(len, start) ==
    LET adjacent == [k \in 1..Max(len - 1 - start, 0) |->
                        <<start + k, start + k + 1>>]
    IN  IF len - start >= 2
        THEN Append(adjacent, <<start + 1, len>>)
        ELSE adjacent

\* draws[k] = <<r, u>>: the next_f32() and next_u32() of the k-th pair.
RECURSIVE CrossoverLoop(_, _, _, _, _, _)
CrossoverLoop(generation, pairs, draws, k, probability, n) ==
    IF k > Len(pairs) THEN generation
    ELSE CrossoverLoop(
            IF draws[k][1] < probability
            THEN Cross(generation, pairs[k][1], pairs[k][2], draws[k][2] % n)
            ELSE generation,
            pairs, draws, k + 1, probability, n)

\* maybe_mutate: the boards `trials` more trials can leave.  A trial swaps
\* two queens when its next_f32() is below the probability: some draw is
\* below it when it is above 0, and some draw is not when it is below 1.
RECURSIVE MaybeMutate(_, _, _)
MaybeMutate(rows, trials, probability) ==
    IF trials = 0 THEN {rows}
    ELSE (IF probability > 0
          THEN UNION {MaybeMutate(Swap(rows, q[1], q[2]), trials - 1, probability) :
                         q \in GetTwoRandomQueens(rows)}
          ELSE {})
         \cup
         (IF probability < ProbScale
          THEN MaybeMutate(rows, trials - 1, probability)
          ELSE {})

\* The generations that mutating every individual from position k on leaves.
RECURSIVE MutateFrom(_, _, _, _)
MutateFrom(generation, k, n, probability) ==
    IF k > Len(generation) THEN {generation}
    ELSE UNION {MutateFrom([generation EXCEPT ![k] = m], k + 1, n, probability) :
                    m \in MaybeMutate(generation[k], n, probability)}

\* The generation_size == 0 return, reporting its result to the callback.
GAEmptyReported ==
    /\ alg = "ga" /\ pc = "start"
    /\ config.generation_size = 0
    /\ solution' = Returned(<<>>, 0)
    /\ cb' = Callback(<<>>, 0, "start")
    /\ cb_fired' = 1
    /\ pc' = "done"
    /\ UNCHANGED <<probe, alg, size, queen_rows, btVars, hcVars, saVars, beamVars,
                   gaVars, lowest_seen>>

\* if generation_size == 0 { return Solution::new(vec![], 0) }
GAEmpty ==
    /\ alg = "ga" /\ pc = "start"
    /\ config.generation_size = 0
    /\ solution' = Returned(<<>>, 0)
    /\ pc' = "done"
    /\ cb_fired' = 0
    /\ UNCHANGED <<probe, alg, size, queen_rows, btVars, hcVars, saVars, beamVars,
                   gaVars, cb, lowest_seen>>

\* The first generation.
GAStart ==
    /\ alg = "ga" /\ pc = "start"
    /\ config.generation_size # 0
    /\ current_generation' \in [1..config.generation_size -> NewStates(size)]
    /\ pending_generations' = config.generation_count
    /\ pc' = "loop"
    /\ cb_fired' = 0
    /\ UNCHANGED <<probe, alg, size, queen_rows, btVars, hcVars, saVars, beamVars,
                   config, next_generation, non_elite_generation_start, cb,
                   lowest_seen, solution>>

\* A generation whose sorted population holds an individual of score 0: the
\* first of them (the first of all, the population being sorted) is returned.
GAFound ==
    /\ alg = "ga" /\ pc = "loop"
    /\ pending_generations > 0
    /\ LET sorted == SortByScore(current_generation)
           z == FirstZero(sorted, 1)
       IN  /\ z # 0
           /\ current_generation' = sorted
           /\ cb' = Callback(sorted[z], 0, "round")
           /\ cb_fired' = IF z = 1 THEN 1 ELSE 2
           /\ solution' = Returned(sorted[z], 0)
    /\ pc' = "done"
    /\ UNCHANGED <<probe, alg, size, queen_rows, btVars, hcVars, saVars, beamVars,
                   config, next_generation, non_elite_generation_start,
                   pending_generations, lowest_seen>>

\* A generation without one: sort, report the first individual.
GASort ==
    /\ alg = "ga" /\ pc = "loop"
    /\ pending_generations > 0
    /\ LET sorted == SortByScore(current_generation)
       IN  /\ FirstZero(sorted, 1) = 0
           /\ current_generation' = sorted
           /\ cb' = Callback(sorted[1], Score(sorted[1]), "round")
    /\ cb_fired' = 1
    /\ pc' = "select"
    /\ UNCHANGED <<probe, alg, size, queen_rows, btVars, hcVars, saVars, beamVars,
                   config, next_generation, non_elite_generation_start,
                   pending_generations, lowest_seen, solution>>

\* The elite slice, then one draw for every other slot: the slot takes the
\* individual that its draw selects.
GASelect ==
    /\ alg = "ga" /\ pc = "select"
    /\ \E scores \in {Scores(current_generation)} :
       \E elite \in {EliteLoop(0, Len(current_generation), 0,
                                F32Probability(config.elitism))} :
          IF elite = -1
          THEN /\ pc' = "panic"
               /\ UNCHANGED <<next_generation, non_elite_generation_start>>
          ELSE \E outcomes \in {{Select(scores, p) : p \in SelectionDraws(scores)}} :
               \E chosen \in [(elite + 1)..config.generation_size -> outcomes] :
                  IF \E k \in DOMAIN chosen : chosen[k] = -1
                  THEN /\ pc' = "panic"
                       /\ UNCHANGED <<next_generation,
                                      non_elite_generation_start>>
                  ELSE /\ next_generation' =
                            [k \in 1..Max(elite, config.generation_size) |->
                                IF k <= elite THEN current_generation[k]
                                ELSE current_generation[chosen[k] + 1]]
                       /\ non_elite_generation_start' = elite
                       /\ pc' = "crossover"
    /\ cb_fired' = 0
    /\ UNCHANGED <<probe, alg, size, queen_rows, btVars, hcVars, saVars, beamVars,
                   config, current_generation, pending_generations, cb,
                   lowest_seen, solution>>

\* "Now do the mix": the adjacent pairs, then last with first.
GACrossover ==
    /\ alg = "ga" /\ pc = "crossover"
    /\ LET pairs == CrossoverPairs(Len(next_generation), non_elite_generation_start)
       IN  \E draws \in [1..Len(pairs) ->
                            (0..(ProbScale - 1)) \X (0..Max(size - 1, 0))] :
             IF size = 0 /\ \E k \in 1..Len(pairs) :
                                draws[k][1] < config.crossover_probability
             THEN /\ pc' = "panic"
                  /\ UNCHANGED next_generation
             ELSE /\ next_generation' =
                        CrossoverLoop(next_generation, pairs, draws, 1,
                                      config.crossover_probability, size)
                  /\ pc' = "mutate"
    /\ cb_fired' = 0
    /\ UNCHANGED <<probe, alg, size, queen_rows, btVars, hcVars, saVars, beamVars,
                   config, current_generation, non_elite_generation_start,
                   pending_generations, cb, lowest_seen, solution>>

\* maybe_mutate on every non-elite individual; the new generation replaces
\* the current one.  get_two_random_queens needs two queens to return.
GAMutate ==
    /\ alg = "ga" /\ pc = "mutate"
    /\ IF /\ size = 1
          /\ config.mutation_probability > 0
          /\ non_elite_generation_start < Len(next_generation)
       THEN /\ pc' = "panic"
            /\ UNCHANGED <<current_generation, pending_generations>>
       ELSE /\ current_generation' \in
                    MutateFrom(next_generation, non_elite_generation_start + 1,
                               size, config.mutation_probability)
            /\ pending_generations' = pending_generations - 1
            /\ pc' = "loop"
    /\ cb_fired' = 0
    /\ UNCHANGED <<probe, alg, size, queen_rows, btVars, hcVars, saVars, beamVars,
                   config, next_generation, non_elite_generation_start, cb,
                   lowest_seen, solution>>

\* No generation is pending: the best of the sorted population.
GAReturn ==
    /\ alg = "ga" /\ pc = "loop"
    /\ pending_generations = 0
    /\ LET sorted == SortByScore(current_generation)
       IN  /\ current_generation' = sorted
           /\ solution' = Returned(sorted[1], Score(sorted[1]))
    /\ pc' = "done"
    /\ cb_fired' = 0
    /\ UNCHANGED <<probe, alg, size, queen_rows, btVars, hcVars, saVars, beamVars,
                   config, next_generation, non_elite_generation_start,
                   pending_generations, cb, lowest_seen>>

\* The elite loop of one generation step taken alone, on a population of
\* generation_size individuals: the number of elites it pushes, or the panic
\* of its index.
CountElite ==
    /\ alg = "elite_loop" /\ pc = "start"
    /\ LET elite == EliteLoop(0, config.generation_size, 0,
                              F32Probability(config.elitism))
       IN  IF elite = -1
           THEN /\ pc' = "panic"
                /\ UNCHANGED non_elite_generation_start
           ELSE /\ non_elite_generation_start' = elite
                /\ pc' = "done"
    /\ UNCHANGED <<probe, alg, size, queen_rows, btVars, hcVars, saVars, beamVars,
                   config, current_generation, next_generation,
                   pending_generations, cb, cb_fired, lowest_seen, solution>>

\* The selection of one slot taken alone: the body of
\* "for _ in non_elite_generation_start..generation_size" with the draw p.
SelectOne ==
    /\ alg = "selection" /\ pc = "start"
    /\ LET chosen == Select(Scores(current_generation), probe.p)
       IN  IF chosen = -1
           THEN /\ pc' = "panic"
                /\ UNCHANGED next_generation
           ELSE /\ next_generation' =
                      Append(next_generation, current_generation[chosen + 1])
                /\ pc' = "done"
    /\ probe' = [probe EXCEPT !.called = TRUE]
    /\ UNCHANGED <<alg, size, queen_rows, btVars, hcVars, saVars, beamVars,
                   config, current_generation, non_elite_generation_start,
                   pending_generations, cb, cb_fired, lowest_seen, solution>>

\* The mix taken alone, one pair a step: an iteration of
\* "for i in non_elite_generation_start..next_generation.len() - 1", or the
\* "Cross-over last with first" that follows the loop.  probe.pair is the
\* position of the pair in the order of the mix; probe.crossover and
\* probe.solution_split are the locals of the latest step.
CrossPair ==
    /\ alg = "crossover" /\ pc = "crossover"
    /\ LET pairs == CrossoverPairs(Len(next_generation), non_elite_generation_start)
           pair == pairs[probe.pair]
       IN  /\ \E r \in 0..(ProbScale - 1), u \in 0..(size - 1) :
                LET crossover == r < config.crossover_probability
                    solution_split == u % size
                IN  /\ next_generation' =
                            IF crossover
                            THEN Cross(next_generation, pair[1], pair[2], solution_split)
                            ELSE next_generation
                    /\ probe' = [pair |-> probe.pair + 1,
                                 crossover |-> crossover,
                                 solution_split |-> IF crossover THEN solution_split ELSE 0]
           /\ pc' = IF probe.pair = Len(pairs) THEN "done" ELSE "crossover"
    /\ UNCHANGED <<alg, size, queen_rows, btVars, hcVars, saVars, beamVars,
                   config, current_generation, non_elite_generation_start,
                   pending_generations, cb, cb_fired, lowest_seen, solution>>

---------------------------------------------------------------------------
(* Direct calls of score() and can_position, as the tests make them: on a  *)
(* board of any content (partial or complete) and on any two cells.        *)

\* Every board of at most n columns with rows below n.
Boards(n) == UNION {[1..k -> 0..(n - 1)] : k \in 0..n}

Cells(n) == (0..(n - 1)) \X (0..(n - 1))

\* score() on the board, can_position on the two cells, in both orders.
Evaluate ==
    /\ alg = "score" /\ pc = "start"
    /\ current_score' = Score(queen_rows)
    /\ probe' = [probe EXCEPT
                    !.called = TRUE,
                    !.result = CanPosition(probe.p1, probe.p2),
                    !.reverse = CanPosition(probe.p2, probe.p1)]
    /\ pc' = "done"
    /\ UNCHANGED <<alg, size, queen_rows, start_search_at,
                   iterations_without_improvement, saVars, beamVars, gaVars,
                   cb, cb_fired, lowest_seen, solution>>

---------------------------------------------------------------------------
(* Initial states: the state new(size, config) leaves. *)

InitCommon ==
    /\ cb = NoCallback
    /\ cb_fired = 0
    /\ lowest_seen = 0
    /\ solution = NoSolution
    /\ probe = NoProbe

InitUnused ==
    /\ start_search_at = 0
    /\ current_score = 0
    /\ iterations_without_improvement = 0

InitNoSA == temperature = 0 /\ cooling_factor = 0
InitNoBeam == state_count = 0 /\ states = <<>>
InitNoGA ==
    /\ config = NoConfig
    /\ current_generation = <<>>
    /\ next_generation = <<>>
    /\ non_elite_generation_start = 0
    /\ pending_generations = 0

\* ConstraintPropagation::new / queens.rs HillClimbing::new.  queens.rs
\* returns Some([]) for size 0 before its loop, which is what its loop does
\* with size 0 too.
InitBT ==
    /\ alg \in {"bt", "old"}
    /\ size \in 0..MaxSizeBT
    /\ pc = "loop"
    /\ queen_rows = <<>>
    /\ InitUnused /\ InitNoSA /\ InitNoBeam /\ InitNoGA /\ InitCommon

\* HillClimbing::new
InitHC ==
    /\ alg = "hc"
    /\ size \in 0..MaxSize
    /\ pc = "start"
    /\ queen_rows \in NewStates(size)
    /\ InitUnused /\ InitNoSA /\ InitNoBeam /\ InitNoGA /\ InitCommon

\* SimulatedAnnealing::new
InitSA ==
    /\ alg = "sa"
    /\ size \in 0..MaxSize
    /\ pc = "start"
    /\ queen_rows \in NewStates(size)
    /\ temperature \in StartTemperatures
    /\ cooling_factor \in CoolingFactors
    /\ InitUnused /\ InitNoBeam /\ InitNoGA /\ InitCommon

\* LocalBeamSearch::new
InitBeam ==
    /\ alg = "beam"
    /\ size \in 0..MaxSizeBeam
    /\ pc = "start"
    /\ queen_rows = <<>>
    /\ state_count \in 0..MaxStateCount
    /\ states = <<>>
    /\ InitUnused /\ InitNoSA /\ InitNoGA /\ InitCommon

\* GeneticAlgorithm::new
InitGA ==
    /\ alg = "ga"
    /\ size \in 0..MaxSizeGA
    /\ pc = "start"
    /\ queen_rows = <<>>
    /\ config \in [generation_size : 0..MaxGenerationSize,
                   elitism : 0..ProbScale,
                   crossover_probability : 0..ProbScale,
                   mutation_probability : 0..ProbScale,
                   generation_count : 0..MaxGenerationCount]
    /\ current_generation = <<>>
    /\ next_generation = <<>>
    /\ non_elite_generation_start = 0
    /\ pending_generations = 0
    /\ InitUnused /\ InitNoSA /\ InitNoBeam /\ InitCommon

\* GeneticAlgorithm::new with few individuals
InitFew ==
    /\ alg = "ga"
    /\ size \in 0..MaxSizeFew
    /\ pc = "start"
    /\ queen_rows = <<>>
    /\ config \in [generation_size : 0..MaxGenerationSizeFew,
                   elitism : 0..ProbScale,
                   crossover_probability : 0..ProbScale,
                   mutation_probability : 0..ProbScale,
                   generation_count : 0..MaxGenerationCountFew]
    /\ current_generation = <<>>
    /\ next_generation = <<>>
    /\ non_elite_generation_start = 0
    /\ pending_generations = 0
    /\ InitUnused /\ InitNoSA /\ InitNoBeam /\ InitCommon

\* GeneticAlgorithm::new with elitism 1.0
InitElite ==
    /\ alg = "ga"
    /\ size \in 0..MaxSizeElite
    /\ pc = "start"
    /\ queen_rows = <<>>
    /\ config \in [generation_size : (0..MaxGenerationSize) \cup {LargeGenerationSize},
                   elitism : {ProbScale},
                   crossover_probability : 0..ProbScale,
                   mutation_probability : 0..ProbScale,
                   generation_count : 0..MaxGenerationCount]
    /\ current_generation = <<>>
    /\ next_generation = <<>>
    /\ non_elite_generation_start = 0
    /\ pending_generations = 0
    /\ InitUnused /\ InitNoSA /\ InitNoBeam /\ InitCommon

\* A generation step about to run its elite loop.
InitEliteLoop ==
    /\ alg = "elite_loop"
    /\ size = 0
    /\ pc = "start"
    /\ queen_rows = <<>>
    /\ config \in [generation_size : 1..MaxEliteLen,
                   elitism : 0..ProbScale,
                   crossover_probability : {0},
                   mutation_probability : {0},
                   generation_count : {1}]
    /\ current_generation = <<>>
    /\ next_generation = <<>>
    /\ non_elite_generation_start = 0
    /\ pending_generations = 1
    /\ InitUnused /\ InitNoSA /\ InitNoBeam /\ InitCommon

\* A generation step without elites about to fill its first slot: a sorted
\* population of copies of at most two boards with attacks, and a draw.
InitSelection ==
    /\ alg = "selection"
    /\ size \in 2..MaxSizeSelect
    /\ pc = "start"
    /\ queen_rows = <<>>
    /\ \E len \in 1..MaxSelectLen, k \in 0..MaxSelectLen :
         \E better \in NewStates(size), worse \in NewStates(size) :
            /\ k <= len
            /\ Score(better) > 0
            /\ Score(better) <= Score(worse)
            /\ current_generation =
                    [i \in 1..len |-> IF i <= k THEN better ELSE worse]
            /\ config = [generation_size |-> len, elitism |-> 0,
                         crossover_probability |-> 0, mutation_probability |-> 0,
                         generation_count |-> 1]
    /\ next_generation = <<>>
    /\ non_elite_generation_start = 0
    /\ pending_generations = 1
    /\ InitUnused /\ InitNoSA /\ InitNoBeam
    /\ cb = NoCallback
    /\ cb_fired = 0
    /\ lowest_seen = 0
    /\ solution = NoSolution
    /\ probe \in [called : {FALSE}, p : SelectionDraws(Scores(current_generation))]

\* A board and two cells to call score() and can_position on.
InitScore ==
    /\ alg = "score"
    /\ size \in 1..MaxSizeScore
    /\ pc = "start"
    /\ queen_rows \in Boards(size)
    /\ InitUnused /\ InitNoSA /\ InitNoBeam /\ InitNoGA
    /\ cb = NoCallback
    /\ cb_fired = 0
    /\ lowest_seen = 0
    /\ solution = NoSolution
    /\ probe \in [called : {FALSE}, p1 : Cells(size), p2 : Cells(size),
                  result : {"Ok"}, reverse : {"Ok"}]

NextBT == BTPush \/ BTPop \/ BTReturn
NextHC == HCStart \/ HCIterate \/ HCReturn

NextSA == SAStart \/ SAIterate \/ SAReturn
NextBeamSearch == BeamStart \/ BeamReturn \/ BeamScan \/ BeamSuccessors

NextGA == GAEmpty \/ GAStart \/ GAFound \/ GASort \/ GASelect \/ GACrossover
            \/ GAMutate \/ GAReturn

Init == InitBT \/ InitHC \/ InitSA \/ InitBeam \/ InitGA
Next == NextBT \/ NextHC \/ NextSA \/ NextBeamSearch \/ NextGA

\* The generation as the selection leaves it, before the mix: the elites
\* followed by the selected individuals, on a board that has conflicts (of
\* two columns or more).
InitCrossover ==
    /\ alg = "crossover"
    /\ size \in 2..MaxSizeCross
    /\ queen_rows = <<>>
    /\ \E len \in 1..MaxCrossLen :
         /\ next_generation \in [1..len -> NewStates(size)]
         /\ non_elite_generation_start \in 0..len
         /\ \E probability \in 0..ProbScale :
                config = [generation_size |-> len, elitism |-> 0,
                          crossover_probability |-> probability,
                          mutation_probability |-> 0, generation_count |-> 1]
    /\ pc = IF Len(next_generation) - non_elite_generation_start >= 2
            THEN "crossover" ELSE "done"
    /\ current_generation = <<>>
    /\ pending_generations = 1
    /\ InitUnused /\ InitNoSA /\ InitNoBeam
    /\ cb = NoCallback
    /\ cb_fired = 0
    /\ lowest_seen = 0
    /\ solution = NoSolution
    /\ probe = [pair |-> 1, crossover |-> FALSE, solution_split |-> 0]

\* Hill climbing, annealing and beam search.
InitLocal == InitHC \/ InitSA \/ InitBeam
NextLocal == NextHC \/ NextSA \/ NextBeamSearch

\* Every strategy.
Spec == Init /\ [][Next]_vars
\* Every strategy, the genetic one with few individuals.
InitReturn == InitBT \/ InitLocal \/ InitFew
SpecReturn == InitReturn /\ [][Next]_vars
\* A run is one thread that executes until solve_with_callback returns.
FairBeam == InitBeam /\ [][NextBeamSearch]_vars /\ WF_vars(NextBeamSearch)
SpecLocal == InitLocal /\ [][NextLocal]_vars
FairBT == InitBT /\ [][NextBT]_vars /\ WF_vars(NextBT)
SpecScore == InitScore /\ [][Evaluate]_vars
SpecEliteLoop == InitEliteLoop /\ [][CountElite]_vars
SpecSelection == InitSelection /\ [][SelectOne]_vars
SpecCrossover == InitCrossover /\ [][CrossPair]_vars
SpecGA == InitGA /\ [][NextGA]_vars
SpecElite == InitElite /\ [][NextGA]_vars
SpecFew == InitFew /\ [][NextGA]_vars
SpecSA == InitSA /\ [][NextSA]_vars
\* Annealing started at a temperature below 1.0.
InitCold == InitSA /\ temperature < F32One
SpecCold == InitCold /\ [][NextSA]_vars
\* The annealing loop keeps running until it returns.
FairSA == InitSA /\ [][NextSA]_vars /\ WF_vars(NextSA)
SpecBeam == InitBeam /\ [][NextBeamSearch]_vars
SpecBT == InitBT /\ [][NextBT]_vars
SpecHC == InitHC /\ [][NextHC]_vars
\* The hill climbing loop keeps running until it returns.
FairHC == InitHC /\ [][NextHC]_vars /\ WF_vars(NextHC)

---------------------------------------------------------------------------
(* The properties checked. *)

Distance(a, b) == IF a >= b THEN a - b ELSE b - a

\* Placements (column a, row ra) and (column b, row rb), a # b, attack each
\* other iff they share a row or a diagonal.
Attacks(a, ra, b, rb) == ra = rb \/ Distance(a, b) = Distance(ra, rb)

\* The unordered attacking pairs of columns of a board.
AttackingPairs(rows) ==
    {c \in (1..Len(rows)) \X (1..Len(rows)) :
        c[1] < c[2] /\ Attacks(c[1], rows[c[1]], c[2], rows[c[2]])}

IsPermutation(rows, n) ==
    /\ Len(rows) = n
    /\ {rows[k] : k \in 1..Len(rows)} = 0..(n - 1)

\* n queens, one per column, no two sharing a row or a diagonal.
IsPlacement(rows, n) == IsPermutation(rows, n) /\ AttackingPairs(rows) = {}

\* C1: backtracking (main.rs's ConstraintPropagation and queens.rs's
\* backtracker) on a board of size 1 or of size >= 4 terminates, and what it
\* returns is a solution: score 0 (Some(..) in queens.rs) with an assignment
\* of length size that is a permutation of 0..size-1 with no two queens on a
\* row or a diagonal.
C1_BacktrackingSolves ==
    (IsBT /\ (size = 1 \/ size >= 4))
        ~> (/\ IsBT /\ pc = "done"
            /\ IF alg = "bt" THEN solution.score = 0 ELSE solution.some
            /\ IsPlacement(solution.queen_rows, size))

\* A backtracking run on a board of size >= 4 that has popped a queen and
\* returned a full board.
C1_Witness ==
    /\ alg = "bt" /\ pc = "done" /\ size >= 4
    /\ cb.site = "push"
    /\ start_search_at = 0
    /\ Len(solution.queen_rows) = size
    /\ solution.queen_rows[1] # 0

\* C2: on a board of size 2 or 3, where no placement exists,
\* ConstraintPropagation returns a Solution whose score is nonzero.
C2_NoPlacementScoresNonzero ==
    (alg = "bt" /\ pc = "done" /\ size \in {2, 3}) => solution.score > 0

\* C3: on a board of size 0 every one of the five strategies, whatever its
\* configuration, terminates and returns the empty assignment with score 0.
C3_EmptyBoardReturnsEmpty ==
    (alg \in {"bt", "hc", "sa", "beam", "ga"} /\ size = 0)
        ~> (/\ alg \in {"bt", "hc", "sa", "beam", "ga"}
            /\ pc = "done"
            /\ solution.queen_rows = <<>>
            /\ solution.score = 0)

\* C5: whenever a strategy returns a Solution with score 0, the returned
\* assignment has length size and is a valid placement.
C5_ZeroScoreIsPlacement ==
    (alg \in {"bt", "hc", "sa", "beam", "ga"} /\ pc = "done"
        /\ solution.score = 0)
        => IsPlacement(solution.queen_rows, size)

\* C4: score() is the number of unordered pairs of columns whose placements
\* attack each other, on every board, partial or complete; can_position is
\* an error exactly when the two cells coincide or share a column, a row or
\* a diagonal, and it is an error in one order of its arguments iff it is in
\* the other.
C4_ScoreCountsAttackingPairs ==
    (alg = "score" /\ pc = "done") =>
        /\ current_score = Cardinality(AttackingPairs(queen_rows))
        /\ (probe.result # "Ok") <=>
              \/ probe.p1 = probe.p2
              \/ probe.p1[1] = probe.p2[1]
              \/ probe.p1[2] = probe.p2[2]
              \/ Distance(probe.p1[1], probe.p2[1])
                    = Distance(probe.p1[2], probe.p2[2])
        /\ (probe.reverse # "Ok") <=> (probe.result # "Ok")

\* A board that is no permutation, with several attacking pairs, was scored,
\* and can_position was called on two cells of one falling diagonal.
C4_Witness ==
    /\ alg = "score" /\ pc = "done"
    /\ current_score > 1
    /\ ~IsPermutation(queen_rows, size)
    /\ probe.result = "Diagonal"
    /\ probe.p1[1] < probe.p2[1] /\ probe.p1[2] > probe.p2[2]

\* C6: in hill climbing, annealing and beam search every board held (the
\* initial ones, the board after a kept or an undone swap, every candidate a
\* swap produces, every state and every successor of a beam, the boards
\* passed to the callback and the returned one) is a permutation of
\* 0..size-1 of length size.
C6_LocalSearchKeepsPermutations ==
    /\ alg \in {"hc", "sa"} =>
          /\ IsPermutation(queen_rows, size)
          /\ \A q \in GetTwoRandomQueens(queen_rows) :
                IsPermutation(Swap(queen_rows, q[1], q[2]), size)
    /\ alg = "beam" =>
          /\ \A k \in 1..Len(states) : IsPermutation(states[k], size)
          /\ LET successors == Successors(states, size)
             IN  \A k \in 1..Len(successors) : IsPermutation(successors[k], size)
    /\ (alg \in {"hc", "sa", "beam"} /\ cb.fired) =>
          IsPermutation(cb.queen_rows, size)
    /\ (alg \in {"hc", "sa", "beam"} /\ pc = "done") =>
          IsPermutation(solution.queen_rows, size)

\* Hill climbing has kept a swap and then undone another.
C6_Witness ==
    /\ alg = "hc" /\ pc = "loop"
    /\ cb.site = "move"
    /\ iterations_without_improvement > 0
    /\ size = 3

\* C7: every individual of every generation of the genetic algorithm is a
\* permutation of 0..size-1 of length size.
C7_IndividualsArePermutations ==
    alg = "ga" =>
        /\ \A k \in 1..Len(current_generation) :
              IsPermutation(current_generation[k], size)
        /\ \A k \in 1..Len(next_generation) :
              IsPermutation(next_generation[k], size)

\* C8: in hill climbing every callback after the first reports a score
\* strictly lower than the callback before it.
C8_HillClimbingCallbackDecreases ==
    [][(alg = "hc" /\ cb_fired' > 0 /\ cb.fired) => cb'.score < cb.score]_vars

\* Hill climbing has just reported a kept move.
C8_Witness ==
    /\ alg = "hc" /\ pc = "loop"
    /\ cb.site = "move"
    /\ cb_fired = 1

\* C9, as claimed: in annealing no callback reports a higher score than the
\* callback before it.
C9_AnnealingCallbackNonIncreasing ==
    [][(alg = "sa" /\ cb_fired' > 0 /\ cb.fired) => cb'.score <= cb.score]_vars

\* C9, amended: a callback of an iteration that runs at a temperature <= 1
\* reports a score strictly lower than the callback before it.
C9_AnnealingCallbackDecreasesWhenCool ==
    [][(alg = "sa" /\ cb_fired' > 0 /\ cb.fired /\ temperature <= F32One)
            => cb'.score < cb.score]_vars

\* Annealing has just reported a kept move of an iteration at temperature
\* <= 1 (the cooling factor being 0, the temperature was what it is).
C9_Witness ==
    /\ alg = "sa" /\ pc = "loop"
    /\ cb.site = "move"
    /\ cb_fired = 1
    /\ cooling_factor = 0
    /\ temperature <= F32One

\* C10: when hill climbing returns a nonzero score, that score is the lowest
\* score() value of the run (the initial board's and every candidate's), it
\* is no higher than the latest callback's, and the returned assignment is a
\* board of exactly that score.
C10_HillClimbingReturnsLowest ==
    (alg = "hc" /\ pc = "done" /\ solution.score # 0) =>
        /\ solution.score = lowest_seen
        /\ solution.score <= cb.score
        /\ solution.score = Cardinality(AttackingPairs(solution.queen_rows))

\* Hill climbing improved at least once, then gave up at the cap.
C10_Witness ==
    /\ alg = "hc" /\ pc = "done"
    /\ solution.score # 0
    /\ cb.site = "move"
    /\ iterations_without_improvement > MAX_ITERATIONS_WITHOUT_IMPROVEMENT

\* The board with the rows of columns i and j exchanged.
Exchanged(rows, i, j) ==
    [c \in 1..Len(rows) |->
        IF c = i + 1 THEN rows[j + 1] ELSE IF c = j + 1 THEN rows[i + 1] ELSE rows[c]]

\* The column pairs i < j of a board of n columns, and their generation order.
ColumnPairs(n) == {p \in (0..(n - 1)) \X (0..(n - 1)) : p[1] < p[2]}
GeneratedBefore(p, q) == p[1] < q[1] \/ (p[1] = q[1] /\ p[2] < q[2])

NeighbourScore(rows, p) == Cardinality(AttackingPairs(Exchanged(rows, p[1], p[2])))

\* C11: with state_count = 1 every round replaces the single state by a
\* neighbour (the state with two columns exchanged) of the lowest score
\* among all the neighbours, the first such in generation order.
C11_BeamOfOneIsSteepestDescent ==
    [][(alg = "beam" /\ pc = "successors" /\ state_count = 1) =>
          /\ Len(states) = 1
          /\ Len(states') = 1
          /\ \E p \in ColumnPairs(size) :
                /\ states'[1] = Exchanged(states[1], p[1], p[2])
                /\ \A q \in ColumnPairs(size) :
                      /\ NeighbourScore(states[1], q) >= NeighbourScore(states[1], p)
                      /\ GeneratedBefore(q, p) =>
                            NeighbourScore(states[1], q) > NeighbourScore(states[1], p)
      ]_vars

\* A beam of one state on a board of 4 columns has been through a round
\* that lowered the score.
C11_Witness ==
    /\ alg = "beam" /\ pc = "loop"
    /\ state_count = 1 /\ size = 4
    /\ cb.fired
    /\ Len(states) = 1
    /\ Score(states[1]) < cb.score

\* C12: with elitism = 1.0 and generation_size >= 1 a generation step
\* copies the sorted current generation: every individual is an elite, no
\* slot is left to the selection, and crossover and mutation change nothing.
C12_FullElitismKeepsGeneration ==
    [][(alg = "ga" /\ config.elitism = ProbScale /\ config.generation_size >= 1) =>
          /\ pc' # "panic"
          /\ pc = "select" =>
                /\ next_generation' = current_generation
                /\ non_elite_generation_start' = Len(current_generation)
          /\ pc = "crossover" => next_generation' = next_generation
          /\ pc = "mutate" => current_generation' = next_generation
      ]_vars

\* C13: a genetic run with generation_size = 0 goes from its entry straight
\* to its return, which is the empty assignment with score 0; it builds no
\* individual and never calls the callback.
C13_EmptyGenerationReturnsEmpty ==
    (alg = "ga" /\ config.generation_size = 0) =>
        /\ pc \in {"start", "done"}
        /\ current_generation = <<>> /\ next_generation = <<>>
        /\ ~cb.fired /\ cb_fired = 0
        /\ pc = "start" => ~solution.returned
        /\ pc = "done" =>
              /\ solution.returned
              /\ solution.queen_rows = <<>>
              /\ solution.score = 0

\* A run on the largest board with generations pending has returned through
\* the generation_size = 0 guard.
C13_Witness ==
    /\ alg = "ga" /\ pc = "done"
    /\ config.generation_size = 0
    /\ config.generation_count > 0
    /\ size = MaxSizeFew
    /\ solution.returned

\* C14: a genetic run with generation_size >= 1 never stops short of its
\* return, runs at most generation_count generation steps, and returns an
\* individual of its final population whose score is the lowest of that
\* population.
C14_GeneticReturnsBestOfFinal ==
    (alg = "ga" /\ config.generation_size >= 1) =>
        /\ pc # "panic"
        /\ pc # "start" => pending_generations \in 0..config.generation_count
        /\ pc = "done" =>
              /\ solution.score = Cardinality(AttackingPairs(solution.queen_rows))
              /\ \E k \in 1..Len(current_generation) :
                    solution.queen_rows = current_generation[k]
              /\ \A k \in 1..Len(current_generation) :
                    solution.score <= Cardinality(AttackingPairs(current_generation[k]))

\* C15: an annealing run whose cooling factor lies strictly between 0 and 1
\* eventually returns, whatever the board size and the starting
\* temperature; a run with cooling factor 0 started at a temperature >= 1
\* returns only with score 0.
C15_CoolingTerminates ==
    /\ (alg = "sa" /\ cooling_factor > 0 /\ cooling_factor < F32One) ~> pc = "done"
    /\ [](alg = "sa" /\ cooling_factor = 0 /\ temperature >= F32One /\ pc = "done"
            => solution.score = 0)

\* C16: hill climbing always returns; when it returns, the score is 0 or the
\* counter has just passed 1000 (1001 rejected swaps in a row); and every
\* kept move sets the counter back to 0.
C16_HillClimbingTerminates ==
    /\ (alg = "hc") ~> (pc = "done")
    /\ [](alg = "hc" /\ pc = "done" =>
            \/ solution.score = 0
            \/ iterations_without_improvement = MAX_ITERATIONS_WITHOUT_IMPROVEMENT + 1)
    /\ [][(alg = "hc" /\ pc = "loop" /\ current_score' # current_score)
            => iterations_without_improvement' = 0]_vars
    /\ [][(alg = "hc" /\ pc = "loop" /\ pc' = "loop" /\ current_score' = current_score)
            => iterations_without_improvement' = iterations_without_improvement + 1]_vars

\* Hill climbing has kept a move, then rejected 1001 swaps in a row and
\* returned a board that still has attacks.
C16_Witness ==
    /\ alg = "hc" /\ pc = "done"
    /\ cb.fired /\ cb.site = "move"
    /\ solution.returned /\ solution.score > 0
    /\ iterations_without_improvement = MAX_ITERATIONS_WITHOUT_IMPROVEMENT + 1

\* C17: in an annealing iteration a strictly worsening move can be both kept
\* and rejected when the temperature is above 1, and a move that does not
\* strictly improve the score is always rejected when the temperature is
\* <= 1.
C17_WorseningMoveAcceptedOrRejected ==
    (alg = "sa" /\ pc = "loop" /\ SAContinue) =>
        \A q \in GetTwoRandomQueens(queen_rows) :
            LET new_score == Score(Swap(queen_rows, q[1], q[2]))
                kept == {step.callback :
                            step \in SAStep(queen_rows, current_score,
                                            iterations_without_improvement,
                                            temperature, q)}
            IN  /\ (new_score > current_score /\ temperature > F32One)
                        => kept = {TRUE, FALSE}
                /\ (new_score >= current_score /\ temperature <= F32One)
                        => kept = {FALSE}
                /\ new_score < current_score => kept = {TRUE}

\* C18: annealing at a temperature below 1 is hill climbing: it starts with
\* the same score, counter and callback, its loop runs on exactly when hill
\* climbing's does, for every random pair an iteration leaves the board,
\* score, counter and callback that hill climbing's iteration leaves, and
\* it returns the same Solution.
C18_ColdAnnealingIsHillClimbing ==
    (alg = "sa" /\ temperature < F32One) =>
        /\ (pc = "loop" /\ cb_fired = 1 /\ cb.site = "start") =>
              /\ current_score = Score(queen_rows)
              /\ iterations_without_improvement = 0
              /\ cb = Callback(queen_rows, current_score, "start")
        /\ pc = "loop" =>
              /\ SAContinue <=> HCContinue
              /\ \A q \in GetTwoRandomQueens(queen_rows) :
                    SAStep(queen_rows, current_score,
                           iterations_without_improvement, temperature, q)
                        = {HCStep(queen_rows, current_score,
                                  iterations_without_improvement, q)}
        /\ pc = "done" =>
              /\ ~HCContinue
              /\ solution = Returned(queen_rows, current_score)

\* Annealing started below temperature 1 has kept a move, then rejected 1001
\* swaps in a row and returned.
C18_Witness ==
    /\ alg = "sa" /\ pc = "done"
    /\ temperature = 0 /\ cooling_factor = 0
    /\ cb.fired /\ cb.site = "move"
    /\ solution.returned /\ solution.score > 0
    /\ iterations_without_improvement = MAX_ITERATIONS_WITHOUT_IMPROVEMENT + 1

\* C19: an iteration of hill climbing or annealing that rejects its swap
\* (the only iterations that leave the counter nonzero) leaves the board,
\* the tracked score and the latest callback as they were and calls no
\* callback; it adds 1 to the counter, only annealing may change (lower) the
\* temperature, and nothing else changes.
C19_RejectedMoveIsUndone ==
    [][(/\ alg \in {"hc", "sa"}
        /\ pc = "loop" /\ pc' = "loop"
        /\ iterations_without_improvement' # 0)
       => /\ queen_rows' = queen_rows
          /\ current_score' = current_score
          /\ cb' = cb
          /\ cb_fired' = 0
          /\ iterations_without_improvement' = iterations_without_improvement + 1
          /\ alg = "hc" => temperature' = temperature
          /\ alg = "sa" => temperature' <= temperature
          /\ UNCHANGED <<alg, size, cooling_factor, solution>>]_vars

\* Annealing has kept a move while hot, then cooled below 1 and rejected two
\* swaps in a row.
C19_Witness ==
    /\ alg = "sa" /\ pc = "loop"
    /\ cb.fired /\ cb.site = "move"
    /\ cb_fired = 0
    /\ iterations_without_improvement = 2
    /\ cooling_factor > 0 /\ temperature = 0
    /\ queen_rows = cb.queen_rows /\ current_score = cb.score

Occurrences(boards, x) == Cardinality({k \in 1..Len(boards) : boards[k] = x})
NeighbourOccurrences(beam, n, x) ==
    Cardinality({bp \in (1..Len(beam)) \X ColumnPairs(n) :
                    Exchanged(beam[bp[1]], bp[2][1], bp[2][2]) = x})
Neighbours(beam, n) ==
    {Exchanged(beam[bp[1]], bp[2][1], bp[2][2]) : bp \in (1..Len(beam)) \X ColumnPairs(n)}

ShareReaches(e, len, elitism) == e * (EliteOne \div 16) >= (elitism \div 16) * len

\* C22, the elite count: when the elite loop of a generation step ends, the
\* number e of elites is the smallest with e / generation_size >= elitism
\* (0 when elitism is 0).
C22_EliteCountIsSmallestShare ==
    (alg = "elite_loop" /\ pc = "done") =>
        LET e == non_elite_generation_start
            len == config.generation_size
            elitism == F32Probability(config.elitism)
        IN  /\ e \in 0..len
            /\ ShareReaches(e, len, elitism)
            /\ e > 0 => ~ShareReaches(e - 1, len, elitism)
            /\ config.elitism = 0 => e = 0

\* The number of attacking pairs of every individual, and the worst of them.
Pairs(generation, i) == Cardinality(AttackingPairs(generation[i]))
WorstPairs(generation) ==
    CHOOSE w \in {Pairs(generation, i) : i \in 1..Len(generation)} :
        \A i \in 1..Len(generation) : Pairs(generation, i) <= w

\* C23: the selection of a slot never ends without a chosen individual
\* (assert!(chosen_one)), whatever the draw; it pushes exactly one copy of
\* an individual of the current generation; when the scores differ it never
\* pushes an individual of the worst score, and can push every other one;
\* when all the scores are equal it can push every individual.
C23_SelectionAlwaysChooses ==
    alg = "selection" =>
        LET scores == Scores(current_generation)
            len == Len(current_generation)
            worst == WorstPairs(current_generation)
            uniform == \A i \in 1..len : Pairs(current_generation, i) = worst
        IN  /\ pc # "panic"
            /\ pc = "done" =>
                  /\ Len(next_generation) = 1
                  /\ \E i \in 1..len : next_generation[1] = current_generation[i]
                  /\ ~uniform => Pairs(next_generation, 1) < worst
            /\ pc = "start" =>
                  LET chosen == {Select(scores, p) : p \in SelectionDraws(scores)}
                  IN  \A i \in 1..len :
                        (uniform \/ Pairs(current_generation, i) < worst)
                            => (i - 1) \in chosen

\* The rows of `mine` with those of its columns 0..s - 1 taken from `other`.
PrefixFrom(other, mine, s) == SubSeq(other, 1, s) \o SubSeq(mine, s + 1, Len(mine))

C25_PartialAssignmentConflictFree ==
    alg = "bt" =>
        /\ AttackingPairs(queen_rows) = {}
        /\ \A k \in 1..Len(queen_rows) : queen_rows[k] \in 0..(size - 1)
        /\ cb.fired =>
              /\ cb.score = 0
              /\ cb.queen_rows = queen_rows
              /\ Score(cb.queen_rows) = cb.score
              /\ AttackingPairs(cb.queen_rows) = {}
        /\ (pc = "done" /\ Len(solution.queen_rows) = size) =>
              /\ solution.score = 0
              /\ AttackingPairs(solution.queen_rows) = {}

\* ConstraintPropagation has popped a queen and holds three or more.
C25_Witness ==
    /\ alg = "bt" /\ pc = "loop"
    /\ cb.fired /\ cb.site = "pop"
    /\ Len(queen_rows) >= 3
    /\ start_search_at > 0

\* a comes before b in lexicographic order (a proper prefix comes first).
RECURSIVE LexLess(_, _)
LexLess(a, b) ==
    IF b = <<>> THEN FALSE
    ELSE IF a = <<>> THEN TRUE
    ELSE IF Head(a) # Head(b) THEN Head(a) < Head(b)
    ELSE LexLess(Tail(a), Tail(b))

\* Every assignment of k columns of a board of n without an attacking pair.
RECURSIVE ConflictFree(_, _)
ConflictFree(n, k) ==
    IF k = 0 THEN {<<>>}
    ELSE {a \in {Append(shorter, row) : shorter \in ConflictFree(n, k - 1),
                                        row \in 0..(n - 1)} :
            AttackingPairs(a) = {}}

\* C26: ConstraintPropagation moves through the assignments in strictly
\* increasing lexicographic order: a push starts the next column at row 0, a
\* pop resumes the popped column at its row + 1, so the rows followed by the
\* row at which the search resumes grow at every step; the run ends for
\* every size; when the board has a placement the run returns the first
\* placement in lexicographic order.
C26_LexicographicSearch ==
    /\ [][(alg = "bt" /\ pc' = "loop") =>
            /\ LexLess(Append(queen_rows, start_search_at),
                       Append(queen_rows', start_search_at'))
            /\ IF Len(queen_rows') > Len(queen_rows)
               THEN /\ start_search_at' = 0
                    /\ queen_rows'[Len(queen_rows')] >= start_search_at
               ELSE start_search_at' = queen_rows[Len(queen_rows)] + 1
         ]_vars
    /\ (alg = "bt") ~> (alg = "bt" /\ pc = "done")
    /\ []((alg = "bt" /\ pc = "done") =>
            \A placement \in ConflictFree(size, size) :
                /\ solution.queen_rows \in ConflictFree(size, size)
                /\ \/ solution.queen_rows = placement
                   \/ LexLess(solution.queen_rows, placement))

\* ConstraintPropagation has returned from a board of 6 columns, which has
\* more than one placement, after popping the queen of the first column.
C26_Witness ==
    /\ alg = "bt" /\ pc = "done" /\ size = 6
    /\ Cardinality(ConflictFree(6, 6)) > 1
    /\ solution.queen_rows \in ConflictFree(6, 6)
    /\ solution.queen_rows[1] > 0

\* C27: the score of every returned Solution is score() of the returned
\* rows, the number of their attacking pairs, and the score that hill
\* climbing and annealing carry through their loop is score() of their
\* board.
C27_ReturnedScoreIsScoreOfRows ==
    /\ (alg \in {"bt", "hc", "sa", "beam", "ga"} /\ pc = "done") =>
            /\ solution.returned
            /\ solution.score = Cardinality(AttackingPairs(solution.queen_rows))
            /\ solution.score = Score(solution.queen_rows)
    /\ (alg \in {"hc", "sa"} /\ pc \in {"loop", "done"}) =>
            /\ current_score = Score(queen_rows)
            /\ pc = "done" => solution = Returned(queen_rows, current_score)

\* Annealing has returned a board that still has attacking pairs after
\* keeping a move and rejecting others.
C27_Witness ==
    /\ alg = "sa" /\ pc = "done"
    /\ solution.score > 0
    /\ cb.site = "move"
    /\ iterations_without_improvement > 0

\* What get_two_random_queens needs of the board, and what it returns then:
\* two different columns of the board, and at least one such pair.
TwoQueensFrom(rows) ==
    /\ Len(rows) > 1
    /\ GetTwoRandomQueens(rows) # {}
    /\ \A q \in GetTwoRandomQueens(rows) :
          /\ q[1] # q[2]
          /\ q[1] \in 0..(Len(rows) - 1)
          /\ q[2] \in 0..(Len(rows) - 1)

\* C28: wherever hill climbing, annealing or the genetic mutation is about
\* to call get_two_random_queens, the board has at least two queens, and
\* the call returns two different column indices below size.
C28_TwoQueensPrecondition ==
    /\ (alg = "hc" /\ pc = "loop" /\ HCContinue) =>
            Len(queen_rows) = size /\ TwoQueensFrom(queen_rows)
    /\ (alg = "sa" /\ pc = "loop" /\ SAContinue) =>
            Len(queen_rows) = size /\ TwoQueensFrom(queen_rows)
    /\ (alg = "ga" /\ pc = "mutate" /\ size > 0
            /\ config.mutation_probability > 0) =>
            \A k \in (non_elite_generation_start + 1)..Len(next_generation) :
                Len(next_generation[k]) = size /\ TwoQueensFrom(next_generation[k])

\* The genetic mutation has called get_two_random_queens on a board of two
\* columns and swapped its queens.
C28_Witness ==
    /\ alg = "ga" /\ pc = "loop" /\ size = 2
    /\ config.mutation_probability > 0
    /\ Len(next_generation) = 1 /\ Len(current_generation) = 1
    /\ non_elite_generation_start = 0
    /\ current_generation[1] # next_generation[1]

=============================================================================
